---- MODULE Spec2Model ----
(***************************************************************************)
(* Model of OpenGL/src/Application.cpp: Application::ParseShader,          *)
(* CompileShader, CreateShader, the shader part of init, and render.       *)
(*                                                                         *)
(* Strings are sequences of one-character strings.  The scalar r and the   *)
(* step m_Increment are kept in integer hundredths (0.05f is 5).           *)
(* The vertex array, vertex buffer and index buffer objects (va, vb, ib)   *)
(* are external collaborators and are not part of the model.               *)
(***************************************************************************)
EXTENDS Integers, Sequences, FiniteSets, TLC

(***************************************************************************)
(* Bounds                                                                  *)
(***************************************************************************)
MaxLines == 4
MaxLogLen == 2
MaxLoc == 1

(***************************************************************************)
(* std::string helpers                                                     *)
(***************************************************************************)
npos == -1

\* std::string::find(needle): index (0-based) of the first occurrence, or npos
find(s, needle) ==
    LET hits == {i \in 1..(Len(s) - Len(needle) + 1) :
                    SubSeq(s, i, i + Len(needle) - 1) = needle}
    IN  IF hits = {} THEN npos
        ELSE (CHOOSE i \in hits : \A j \in hits : i <= j) - 1

NL == "\n"

\* the three string literals of ParseShader
STR_shader   == <<"#", "s", "h", "a", "d", "e", "r">>
STR_vertex   == <<"v", "e", "r", "t", "e", "x">>
STR_fragment == <<"f", "r", "a", "g", "m", "e", "n", "t">>

(***************************************************************************)
(* ShaderProgramSource::ShaderType and the accumulator array               *)
(***************************************************************************)
NONE     == -1
VERTEX   == 0
FRAGMENT == 1
ShaderType == {NONE, VERTEX, FRAGMENT}

\* std::stringstream ss[2]: the valid indices
SS_SIZE == 2
SSIndex == 0..(SS_SIZE - 1)

\* outcomes of a write through an index outside ss[0..1]
UBOutcomes == {"absorbed", "crash", "clobber"}

(***************************************************************************)
(* The GL as seen through its calls                                        *)
(***************************************************************************)
GL_FALSE == 0
GL_TRUE  == 1
NOT_FOUND == -1

\* one GL call: its name, its arguments, whether it was made inside CALL(...),
\* and the error it left in glGetError
GLCall(fn, args, wrapped, err) ==
    [fn |-> fn, args |-> args, wrapped |-> wrapped, err |-> err]

Calls(tr, fn, args) == {i \in DOMAIN tr : tr[i].fn = fn /\ tr[i].args = args}

\* a shader name that glCreateShader returned and glDeleteShader has not deleted
LiveShader(tr, sh) ==
    /\ \E i \in DOMAIN tr : tr[i].fn = "glCreateShader" /\ tr[i].args = <<sh>>
    /\ Calls(tr, "glDeleteShader", <<sh>>) = {}

\* glAttachShader: a shader that is not a GL object is GL_INVALID_VALUE
glAttachShader_err(tr, prog, sh) ==
    IF ~LiveShader(tr, sh) THEN "GL_INVALID_VALUE"
    ELSE IF Calls(tr, "glAttachShader", <<prog, sh>>) # {} THEN "GL_INVALID_OPERATION"
    ELSE "GL_NO_ERROR"

\* glDeleteShader: the name 0 is silently ignored
glDeleteShader_err(tr, sh) ==
    IF sh = 0 \/ LiveShader(tr, sh) THEN "GL_NO_ERROR" ELSE "GL_INVALID_VALUE"

\* glUseProgram: 0 unbinds; a program that did not link is GL_INVALID_OPERATION
glUseProgram_err(prog, isLinked) ==
    IF prog = 0 \/ isLinked THEN "GL_NO_ERROR" ELSE "GL_INVALID_OPERATION"

\* CALL(x): the error state is checked right after x; an error halts
CALL(err, next) == IF err = "GL_NO_ERROR" THEN next ELSE "halted"

\* ASSERT(x): a false condition halts
ASSERT(cond, next) == IF cond THEN next ELSE "halted"

(***************************************************************************)
(* Input files                                                             *)
(***************************************************************************)
SP == <<" ">>
LINE_vertex     == STR_shader \o SP \o STR_vertex
LINE_fragment   == STR_shader \o SP \o STR_fragment
LINE_geometry   == STR_shader \o SP \o <<"g", "e", "o">>
LINE_both       == <<"/", "/">> \o STR_shader \o SP \o STR_fragment \o SP \o STR_vertex
LINE_A          == <<"A">>
LINE_empty      == <<>>
LINE_word       == STR_vertex

LineSet == {LINE_vertex, LINE_fragment, LINE_geometry, LINE_both,
            LINE_A, LINE_empty, LINE_word}

RECURSIVE Join(_)
\* every line followed by one newline character
Join(lines) ==
    IF lines = <<>> THEN <<>>
    ELSE Head(lines) \o <<NL>> \o Join(Tail(lines))

\* the text of a file holding the given lines; the last newline may be missing
TextOf(lines, finalNewline) ==
    LET t == Join(lines)
    IN  IF finalNewline \/ t = <<>> THEN t ELSE SubSeq(t, 1, Len(t) - 1)

\* the lines a reader of the text sees: a final empty line without newline is no line
LinesOf(lines, finalNewline) ==
    IF ~finalNewline /\ lines # <<>> /\ lines[Len(lines)] = <<>>
    THEN SubSeq(lines, 1, Len(lines) - 1)
    ELSE lines

LineSeqs(n) == UNION {[1..k -> LineSet] : k \in 0..n}

File(readable, lines, finalNewline) ==
    [readable |-> readable,
     lines    |-> IF readable THEN LinesOf(lines, finalNewline) ELSE <<>>,
     text     |-> IF readable THEN TextOf(lines, finalNewline) ELSE <<>>]

AllFiles ==
    {File(TRUE, ls, nl) : ls \in LineSeqs(MaxLines), nl \in BOOLEAN}
        \cup {File(FALSE, <<>>, TRUE)}

\* the files init is run on: Basic.shader layouts and a missing file
SampleFiles ==
    {File(TRUE, <<LINE_vertex, LINE_A, LINE_fragment, LINE_word>>, TRUE),
     File(TRUE, <<LINE_A, LINE_vertex, LINE_word>>, FALSE),
     File(TRUE, <<>>, TRUE),
     File(FALSE, <<>>, TRUE)}

VARIABLES
    pc,            \* position of the program
    file,          \* the file at res/shaders/Basic.shader
    stream,        \* std::ifstream stream: [is_open, pos, good]
    line,          \* std::string line
    type,          \* ShaderProgramSource::ShaderType type
    ss,            \* std::stringstream ss[2]
    oob,           \* an index outside ss[0..1] has been written through
    source,        \* the ShaderProgramSource returned by ParseShader
    nextHandle,    \* next object name the GL hands out
    trace,         \* the GL calls made so far, in order
    unit,          \* per stage: state of the shader unit
    compileStatus, \* per stage: GL_COMPILE_STATUS held by the GL
    stage,         \* CompileShader: the stage being compiled
    id,            \* CompileShader: unsigned int id
    result,        \* CompileShader: int result
    length,        \* CompileShader: int length
    cout,          \* lines written to std::cout
    program,       \* CreateShader: unsigned int program
    vs,            \* CreateShader: unsigned int vs
    fs,            \* CreateShader: unsigned int fs
    linked,        \* GL_LINK_STATUS of the program
    m_Shader,
    m_UniformLoc,
    m_Increment,
    r,             \* render: static float r
    u_Color        \* last value sent to the colour uniform: [loc, r]

vars == <<pc, file, stream, line, type, ss, oob, source, nextHandle, trace, unit,
          compileStatus, stage, id, result, length, cout, program, vs, fs, linked,
          m_Shader, m_UniformLoc, m_Increment, r, u_Color>>

parseVars == <<stream, line, type, ss, oob, source>>
glVars    == <<nextHandle, trace, unit, compileStatus, stage, id, result, length, cout,
               program, vs, fs, linked>>
appVars   == <<m_Shader, m_UniformLoc, m_Increment, r, u_Color>>

(***************************************************************************)
(* Application::Application                                                *)
(***************************************************************************)

Constructed ==
    /\ stream = [is_open |-> FALSE, pos |-> 1]
    /\ line = <<>>
    /\ type = NONE
    /\ ss = [i \in SSIndex |-> <<>>]
    /\ oob = FALSE
    /\ source = [VertexSource |-> <<>>, FragmentSource |-> <<>>]
    /\ nextHandle = 1
    /\ trace = <<>>
    /\ unit = [s \in {VERTEX, FRAGMENT} |-> "None"]
    /\ compileStatus = [s \in {VERTEX, FRAGMENT} |-> GL_FALSE]
    /\ stage = VERTEX
    /\ id = 0
    /\ result = 0
    /\ length = 0
    /\ cout = <<>>
    /\ program = 0
    /\ vs = 0
    /\ fs = 0
    /\ linked = FALSE
    /\ m_Shader = 0
    /\ m_Increment = 5
    /\ m_UniformLoc = 0
    /\ r = 0
    /\ u_Color = [loc |-> 0, r |-> 0]

\* ParseShader run on every file up to MaxLines lines
InitParse ==
    /\ pc = "init_ParseShader"
    /\ file \in AllFiles
    /\ Constructed

\* init run on the sample files
Init ==
    /\ pc = "init_ParseShader"
    /\ file \in SampleFiles
    /\ Constructed

(***************************************************************************)
(* Application::ParseShader                                                *)
(***************************************************************************)
\* getline(stream, line): whether a line was extracted, the line, the new position
getline(st, text) ==
    IF ~st.is_open \/ st.pos > Len(text)
    THEN [ok |-> FALSE, line |-> <<>>, pos |-> st.pos]
    ELSE LET nls == {i \in st.pos..Len(text) : text[i] = NL}
             end == IF nls = {} THEN Len(text) + 1
                    ELSE CHOOSE i \in nls : \A j \in nls : i <= j
         IN  [ok |-> TRUE, line |-> SubSeq(text, st.pos, end - 1), pos |-> end + 1]

\* line.find("#shader") != std::string::npos
IsMarker(l) == find(l, STR_shader) # npos

\* variant: an unrecognized keyword resets the section
NextTypeReset(t, l) ==
    IF find(l, STR_vertex) # npos THEN VERTEX
    ELSE IF find(l, STR_fragment) # npos THEN FRAGMENT
    ELSE NONE

\* the section after a marker line
NextType(t, l) ==
    IF find(l, STR_vertex) # npos THEN VERTEX
    ELSE IF find(l, STR_fragment) # npos THEN FRAGMENT
    ELSE t

\* variant: the line is inserted without the newline
StreamInsertNoNewline(acc, t, l) == [acc EXCEPT ![t] = @ \o l]

\* ss[(int)type] << line << '\n', for an index inside the array
StreamInsert(acc, t, l) == [acc EXCEPT ![t] = @ \o l \o <<NL>>]

\* locals of ParseShader; the stream is opened on the file
ParseShader_Enter ==
    /\ pc = "init_ParseShader"
    /\ pc' = "ParseShader_loop"
    /\ type' = NONE
    /\ stream' = [is_open |-> file.readable, pos |-> 1]
    /\ line' = <<>>
    /\ ss' = [i \in SSIndex |-> <<>>]
    /\ UNCHANGED <<file, oob, source, glVars, appVars>>

\* one iteration of the while loop
ParseShader_Line ==
    /\ pc = "ParseShader_loop"
    /\ LET g == getline(stream, file.text)
       IN  /\ g.ok
           /\ line' = g.line
           /\ stream' = [stream EXCEPT !.pos = g.pos]
           /\ IF IsMarker(g.line)
              THEN /\ type' = NextType(type, g.line)
                   /\ UNCHANGED <<ss, oob, pc>>
              ELSE IF type \in SSIndex
              THEN /\ ss' = StreamInsert(ss, type, g.line)
                   /\ UNCHANGED <<type, oob, pc>>
              ELSE \E o \in UBOutcomes :
                   /\ oob' = TRUE
                   /\ ss' = ss
                   /\ pc' = IF o = "crash" THEN "crashed" ELSE pc
                   /\ IF o = "clobber" THEN type' \in ShaderType ELSE type' = type
    /\ UNCHANGED <<file, source, glVars, appVars>>

\* getline fails: the two accumulators are returned
ParseShader_Return ==
    /\ pc = "ParseShader_loop"
    /\ ~getline(stream, file.text).ok
    /\ source' = [VertexSource |-> ss[VERTEX], FragmentSource |-> ss[FRAGMENT]]
    /\ pc' = "init_CreateShader"
    /\ UNCHANGED <<file, stream, line, type, ss, oob, glVars, appVars>>

NextParse ==
    \/ ParseShader_Enter
    \/ ParseShader_Line
    \/ ParseShader_Return

SpecParse == InitParse /\ [][NextParse]_vars

(***************************************************************************)
(* Properties of ParseShader                                               *)
(***************************************************************************)
Contains(s, w) == \E i \in 1..Len(s) : \E j \in i..Len(s) : SubSeq(s, i, j) = w

WellFormed(lines) ==
    /\ lines # <<>>
    /\ lines[1] \in {LINE_vertex, LINE_fragment}
    /\ \A i \in 1..Len(lines) :
          Contains(lines[i], STR_shader) => lines[i] \in {LINE_vertex, LINE_fragment}

RECURSIVE SectionText(_, _, _)
\* the lines that follow the marker of section want, each with one newline
SectionText(lines, want, cur) ==
    IF lines = <<>> THEN <<>>
    ELSE LET l == Head(lines)
         IN  IF l = LINE_vertex THEN SectionText(Tail(lines), want, "vertex")
             ELSE IF l = LINE_fragment THEN SectionText(Tail(lines), want, "fragment")
             ELSE (IF cur = want THEN l \o <<NL>> ELSE <<>>)
                      \o SectionText(Tail(lines), want, cur)

Parsed == pc = "init_CreateShader"

\* C1: on a file whose first line is a marker and whose marker lines are exactly
\* '#shader vertex' or '#shader fragment', ParseShader returns as VertexSource the
\* lines that follow a vertex marker, in order, each with one newline, and as
\* FragmentSource the same for the fragment marker.
C1_SectionsReproduced ==
    (file.readable /\ WellFormed(file.lines)) =>
        /\ pc # "crashed"
        /\ ~oob
        /\ Parsed =>
              /\ source.VertexSource = SectionText(file.lines, "vertex", "none")
              /\ source.FragmentSource = SectionText(file.lines, "fragment", "none")

\* the end-to-end scenario: one line routed to each section
C1_Witness ==
    /\ Parsed
    /\ file.lines = <<LINE_vertex, LINE_A, LINE_fragment, LINE_word>>
    /\ source.VertexSource = LINE_A \o <<NL>>
    /\ source.FragmentSource = LINE_word \o <<NL>>

\* C2: lines before the first marker are written inside the bounds of the
\* accumulator array, the call does not fail, and a file without any marker
\* yields two empty sources.
C2_StrayLinesAbsorbed ==
    /\ ~oob
    /\ pc # "crashed"
    /\ (Parsed /\ \A i \in 1..Len(file.lines) : ~Contains(file.lines[i], STR_shader)) =>
          /\ source.VertexSource = <<>>
          /\ source.FragmentSource = <<>>

\* a loop iteration has read the line now held in line'
LineRead == pc = "ParseShader_loop" /\ stream'.pos # stream.pos

\* C9: a line containing '#shader' is never copied to an output; with 'vertex' on
\* it the section becomes vertex, otherwise with 'fragment' fragment, otherwise the
\* section stays as it was, and the following lines go to that section.
C9_MarkerLines ==
    [][LineRead =>
        /\ Contains(line', STR_shader) =>
              /\ ss' = ss
              /\ type' = IF Contains(line', STR_vertex) THEN VERTEX
                         ELSE IF Contains(line', STR_fragment) THEN FRAGMENT
                         ELSE type
        /\ (~Contains(line', STR_shader) /\ type \in {VERTEX, FRAGMENT}) =>
              /\ type' = type
              /\ ss'[type] = ss[type] \o line' \o <<NL>>
              /\ ss'[1 - type] = ss[1 - type]
        /\ \A i \in SSIndex : ~Contains(ss'[i], STR_shader)]_vars

\* an unrecognized keyword after a vertex marker: the next line goes to vertex
C9_Witness ==
    /\ Parsed
    /\ file.lines = <<LINE_vertex, LINE_geometry, LINE_A>>
    /\ source.VertexSource = LINE_A \o <<NL>>
    /\ source.FragmentSource = <<>>

(***************************************************************************)
(* Application::CompileShader                                              *)
(***************************************************************************)
StageName(s) == IF s = VERTEX THEN "vertex" ELSE "fragment"

\* the value of CompileShader goes to vs, and then to fs
CompileShader_Return(value) ==
    IF stage = VERTEX
    THEN /\ vs' = value
         /\ stage' = FRAGMENT
         /\ pc' = "CompileShader_create"
         /\ UNCHANGED fs
    ELSE /\ fs' = value
         /\ pc' = "CreateShader_attach_vs"
         /\ UNCHANGED <<vs, stage>>

\* unsigned int id = glCreateShader(type)
CompileShader_Create ==
    /\ pc = "CompileShader_create"
    /\ id' = nextHandle
    /\ nextHandle' = nextHandle + 1
    /\ trace' = Append(trace, GLCall("glCreateShader", <<nextHandle>>, FALSE, "GL_NO_ERROR"))
    /\ unit' = [unit EXCEPT ![stage] = "Created"]
    /\ pc' = "CompileShader_source"
    /\ UNCHANGED <<file, parseVars, appVars, compileStatus, stage, result, length,
                   cout, program, vs, fs, linked>>

\* CALL(glShaderSource(id, 1, &src, nullptr))
CompileShader_Source ==
    /\ pc = "CompileShader_source"
    /\ trace' = Append(trace, GLCall("glShaderSource", <<id>>, TRUE, "GL_NO_ERROR"))
    /\ unit' = [unit EXCEPT ![stage] = "SourceAttached"]
    /\ pc' = CALL("GL_NO_ERROR", "CompileShader_compile")
    /\ UNCHANGED <<file, parseVars, appVars, nextHandle, compileStatus, stage, id,
                   result, length, cout, program, vs, fs, linked>>

\* CALL(glCompileShader(id)): the GL compiles the source and keeps the status
CompileShader_Compile ==
    /\ pc = "CompileShader_compile"
    /\ \E st \in {GL_FALSE, GL_TRUE} :
          compileStatus' = [compileStatus EXCEPT ![stage] = st]
    /\ trace' = Append(trace, GLCall("glCompileShader", <<id>>, TRUE, "GL_NO_ERROR"))
    /\ unit' = [unit EXCEPT ![stage] = "CompileAttempted"]
    /\ pc' = CALL("GL_NO_ERROR", "CompileShader_status")
    /\ UNCHANGED <<file, parseVars, appVars, nextHandle, stage, id, result, length,
                   cout, program, vs, fs, linked>>

\* CALL(glGetShaderiv(id, GL_COMPILE_STATUS, &result)); if (result == GL_FALSE) ...
\* else return id
CompileShader_Status ==
    /\ pc = "CompileShader_status"
    /\ result' = compileStatus[stage]
    /\ trace' = Append(trace,
                  GLCall("glGetShaderiv", <<id, "GL_COMPILE_STATUS">>, TRUE, "GL_NO_ERROR"))
    /\ IF compileStatus[stage] = GL_FALSE
       THEN /\ unit' = [unit EXCEPT ![stage] = "Failed"]
            /\ pc' = CALL("GL_NO_ERROR", "CompileShader_loglength")
            /\ UNCHANGED <<vs, fs, stage>>
       ELSE /\ unit' = [unit EXCEPT ![stage] = "Compiled"]
            /\ CompileShader_Return(id)
    /\ UNCHANGED <<file, parseVars, appVars, nextHandle, compileStatus, id, length,
                   cout, program, linked>>

\* CALL(glGetShaderiv(id, GL_INFO_LOG_LENGTH, &length)): a failed compile has a log
CompileShader_LogLength ==
    /\ pc = "CompileShader_loglength"
    /\ length' \in 1..MaxLogLen
    /\ trace' = Append(trace,
                  GLCall("glGetShaderiv", <<id, "GL_INFO_LOG_LENGTH">>, TRUE, "GL_NO_ERROR"))
    /\ pc' = CALL("GL_NO_ERROR", "CompileShader_infolog")
    /\ UNCHANGED <<file, parseVars, appVars, nextHandle, unit, compileStatus, stage, id,
                   result, cout, program, vs, fs, linked>>

\* CALL(glGetShaderInfoLog(id, length, &length, message)) and the two lines on cout
CompileShader_InfoLog ==
    /\ pc = "CompileShader_infolog"
    /\ trace' = Append(trace,
                  GLCall("glGetShaderInfoLog", <<id, length>>, TRUE, "GL_NO_ERROR"))
    /\ cout' = cout \o << <<"Failed to compile", StageName(stage), "shader!">>,
                          <<"message", id, length>> >>
    /\ pc' = CALL("GL_NO_ERROR", "CompileShader_delete")
    /\ UNCHANGED <<file, parseVars, appVars, nextHandle, unit, compileStatus, stage, id,
                   result, length, program, vs, fs, linked>>

\* variant: the failed unit is deleted but its handle is returned
CompileShader_DeleteReturnsId ==
    /\ pc = "CompileShader_delete"
    /\ trace' = Append(trace,
                  GLCall("glDeleteShader", <<id>>, TRUE, glDeleteShader_err(trace, id)))
    /\ IF glDeleteShader_err(trace, id) = "GL_NO_ERROR"
       THEN CompileShader_Return(id)
       ELSE pc' = CALL(glDeleteShader_err(trace, id), pc) /\ UNCHANGED <<vs, fs, stage>>
    /\ UNCHANGED <<file, parseVars, appVars, nextHandle, unit, compileStatus, id,
                   result, length, cout, program, linked>>

\* CALL(glDeleteShader(id)); return 0
CompileShader_Delete ==
    /\ pc = "CompileShader_delete"
    /\ trace' = Append(trace,
                  GLCall("glDeleteShader", <<id>>, TRUE, glDeleteShader_err(trace, id)))
    /\ IF glDeleteShader_err(trace, id) = "GL_NO_ERROR"
       THEN CompileShader_Return(0)
       ELSE pc' = CALL(glDeleteShader_err(trace, id), pc) /\ UNCHANGED <<vs, fs, stage>>
    /\ UNCHANGED <<file, parseVars, appVars, nextHandle, unit, compileStatus, id,
                   result, length, cout, program, linked>>

(***************************************************************************)
(* Application::CreateShader                                               *)
(***************************************************************************)
\* unsigned int program = glCreateProgram(); then CompileShader(GL_VERTEX_SHADER, ...)
CreateShader_Program ==
    /\ pc = "init_CreateShader"
    /\ program' = nextHandle
    /\ nextHandle' = nextHandle + 1
    /\ trace' = Append(trace, GLCall("glCreateProgram", <<nextHandle>>, FALSE, "GL_NO_ERROR"))
    /\ stage' = VERTEX
    /\ pc' = "CompileShader_create"
    /\ UNCHANGED <<file, parseVars, appVars, unit, compileStatus, id, result, length,
                   cout, vs, fs, linked>>

\* CALL(glAttachShader(program, vs))
CreateShader_Attach_vs ==
    /\ pc = "CreateShader_attach_vs"
    /\ LET err == glAttachShader_err(trace, program, vs)
       IN  /\ trace' = Append(trace, GLCall("glAttachShader", <<program, vs>>, TRUE, err))
           /\ pc' = CALL(err, "CreateShader_attach_fs")
    /\ UNCHANGED <<file, parseVars, appVars, nextHandle, unit, compileStatus, stage, id,
                   result, length, cout, program, vs, fs, linked>>

\* CALL(glAttachShader(program, fs))
CreateShader_Attach_fs ==
    /\ pc = "CreateShader_attach_fs"
    /\ LET err == glAttachShader_err(trace, program, fs)
       IN  /\ trace' = Append(trace, GLCall("glAttachShader", <<program, fs>>, TRUE, err))
           /\ pc' = CALL(err, "CreateShader_link")
    /\ UNCHANGED <<file, parseVars, appVars, nextHandle, unit, compileStatus, stage, id,
                   result, length, cout, program, vs, fs, linked>>

\* CALL(glLinkProgram(program)): the GL links and keeps the status
CreateShader_Link ==
    /\ pc = "CreateShader_link"
    /\ linked' \in BOOLEAN
    /\ trace' = Append(trace, GLCall("glLinkProgram", <<program>>, TRUE, "GL_NO_ERROR"))
    /\ pc' = CALL("GL_NO_ERROR", "CreateShader_validate")
    /\ UNCHANGED <<file, parseVars, appVars, nextHandle, unit, compileStatus, stage, id,
                   result, length, cout, program, vs, fs>>

\* CALL(glValidateProgram(program))
CreateShader_Validate ==
    /\ pc = "CreateShader_validate"
    /\ trace' = Append(trace, GLCall("glValidateProgram", <<program>>, TRUE, "GL_NO_ERROR"))
    /\ pc' = CALL("GL_NO_ERROR", "CreateShader_delete_vs")
    /\ UNCHANGED <<file, parseVars, appVars, nextHandle, unit, compileStatus, stage, id,
                   result, length, cout, program, vs, fs, linked>>

\* CALL(glDeleteShader(vs))
CreateShader_Delete_vs ==
    /\ pc = "CreateShader_delete_vs"
    /\ LET err == glDeleteShader_err(trace, vs)
       IN  /\ trace' = Append(trace, GLCall("glDeleteShader", <<vs>>, TRUE, err))
           /\ pc' = CALL(err, "CreateShader_delete_fs")
    /\ UNCHANGED <<file, parseVars, appVars, nextHandle, unit, compileStatus, stage, id,
                   result, length, cout, program, vs, fs, linked>>

\* CALL(glDeleteShader(fs)); return program;  m_Shader = CreateShader(...)
CreateShader_Delete_fs ==
    /\ pc = "CreateShader_delete_fs"
    /\ LET err == glDeleteShader_err(trace, fs)
       IN  /\ trace' = Append(trace, GLCall("glDeleteShader", <<fs>>, TRUE, err))
           /\ pc' = CALL(err, "init_UseProgram")
           /\ m_Shader' = IF err = "GL_NO_ERROR" THEN program ELSE m_Shader
    /\ UNCHANGED <<file, parseVars, nextHandle, unit, compileStatus, stage, id,
                   result, length, cout, program, vs, fs, linked,
                   m_UniformLoc, m_Increment, r, u_Color>>

(***************************************************************************)
(* Application::init, from the shaders on                                  *)
(***************************************************************************)
\* CALL(glUseProgram(m_Shader))
init_UseProgram ==
    /\ pc = "init_UseProgram"
    /\ LET err == glUseProgram_err(m_Shader, linked)
       IN  /\ trace' = Append(trace, GLCall("glUseProgram", <<m_Shader>>, TRUE, err))
           /\ pc' = CALL(err, "init_GetUniformLocation")
    /\ UNCHANGED <<file, parseVars, appVars, nextHandle, unit, compileStatus, stage, id,
                   result, length, cout, program, vs, fs, linked>>

\* CALL(m_UniformLoc = glGetUniformLocation(m_Shader, "u_Color"))
init_GetUniformLocation ==
    /\ pc = "init_GetUniformLocation"
    /\ m_UniformLoc' \in {NOT_FOUND} \cup 0..MaxLoc
    /\ trace' = Append(trace,
                  GLCall("glGetUniformLocation", <<m_Shader, "u_Color">>, TRUE, "GL_NO_ERROR"))
    /\ pc' = CALL("GL_NO_ERROR", "init_ASSERT")
    /\ UNCHANGED <<file, parseVars, nextHandle, unit, compileStatus, stage, id,
                   result, length, cout, program, vs, fs, linked,
                   m_Shader, m_Increment, r, u_Color>>

\* variant: the location is not checked
init_AssertSkipped ==
    /\ pc = "init_ASSERT"
    /\ pc' = "init_Uniform4f"
    /\ UNCHANGED <<file, parseVars, glVars, appVars>>

\* ASSERT(m_UniformLoc != -1)
init_Assert ==
    /\ pc = "init_ASSERT"
    /\ pc' = ASSERT(m_UniformLoc # -1, "init_Uniform4f")
    /\ UNCHANGED <<file, parseVars, glVars, appVars>>

\* CALL(glUniform4f(m_UniformLoc, 0.0f, 0.3f, 0.8f, 1.0f))
init_Uniform4f ==
    /\ pc = "init_Uniform4f"
    /\ u_Color' = [loc |-> m_UniformLoc, r |-> 0]
    /\ trace' = Append(trace, GLCall("glUniform4f", <<m_UniformLoc, 0>>, TRUE, "GL_NO_ERROR"))
    /\ pc' = CALL("GL_NO_ERROR", "init_Unbind")
    /\ UNCHANGED <<file, parseVars, nextHandle, unit, compileStatus, stage, id,
                   result, length, cout, program, vs, fs, linked,
                   m_Shader, m_UniformLoc, m_Increment, r>>

\* CALL(glUseProgram(0)); CALL(glBindBuffer(..., 0)) twice; init returns
init_Unbind ==
    /\ pc = "init_Unbind"
    /\ trace' = trace \o
          <<GLCall("glUseProgram", <<0>>, TRUE, glUseProgram_err(0, linked)),
            GLCall("glBindBuffer", <<"GL_ARRAY_BUFFER", 0>>, TRUE, "GL_NO_ERROR"),
            GLCall("glBindBuffer", <<"GL_ELEMENT_ARRAY_BUFFER", 0>>, TRUE, "GL_NO_ERROR")>>
    /\ pc' = CALL(glUseProgram_err(0, linked), "ready")
    /\ UNCHANGED <<file, parseVars, appVars, nextHandle, unit, compileStatus, stage, id,
                   result, length, cout, program, vs, fs, linked>>

(***************************************************************************)
(* Application::render                                                     *)
(***************************************************************************)
\* variant: the lower bound restores the first step
NextIncrementRestart(x, inc) ==
    LET up == IF x > 100 THEN -1 ELSE inc
    IN  IF x < 0 THEN 5 ELSE up

\* variant: the upper bound is tested one step late
NextIncrementLate(x, inc) ==
    LET up == IF x > 105 THEN -1 ELSE inc
    IN  IF x < 0 THEN 1 ELSE up

\* if (r > 1.0f) m_Increment = -0.01f; if (r < 0.0f) m_Increment = 0.01f;
NextIncrement(x, inc) ==
    LET up == IF x > 100 THEN -1 ELSE inc
    IN  IF x < 0 THEN 1 ELSE up

\* one frame: the uniform is set from r, the quad is drawn, r is advanced
render ==
    /\ pc = "ready"
    /\ u_Color' = [loc |-> m_UniformLoc, r |-> r]
    /\ m_Increment' = NextIncrement(r, m_Increment)
    /\ r' = r + NextIncrement(r, m_Increment)
    /\ UNCHANGED <<pc, file, parseVars, glVars, m_Shader, m_UniformLoc>>

(***************************************************************************)
(* Specifications                                                          *)
(***************************************************************************)
Next ==
    \/ ParseShader_Enter
    \/ ParseShader_Line
    \/ ParseShader_Return
    \/ CreateShader_Program
    \/ CompileShader_Create
    \/ CompileShader_Source
    \/ CompileShader_Compile
    \/ CompileShader_Status
    \/ CompileShader_LogLength
    \/ CompileShader_InfoLog
    \/ CompileShader_Delete
    \/ CreateShader_Attach_vs
    \/ CreateShader_Attach_fs
    \/ CreateShader_Link
    \/ CreateShader_Validate
    \/ CreateShader_Delete_vs
    \/ CreateShader_Delete_fs
    \/ init_UseProgram
    \/ init_GetUniformLocation
    \/ init_Assert
    \/ init_Uniform4f
    \/ init_Unbind
    \/ render

Spec == Init /\ [][Next]_vars

\* the program keeps running: a step that can be taken is taken
FairSpec == Spec /\ WF_vars(Next)

(***************************************************************************)
(* Properties of init, CreateShader and CompileShader                      *)
(***************************************************************************)
\* position in the trace of the first call fn whose first argument is a
Idx(fn, a) ==
    LET hits == {i \in DOMAIN trace : trace[i].fn = fn /\ trace[i].args[1] = a}
    IN  IF hits = {} THEN 0 ELSE CHOOSE i \in hits : \A j \in hits : i <= j

Created == {i \in DOMAIN trace : trace[i].fn = "glCreateShader"}

\* the handle glCreateShader returned for a stage (vertex is created first), or 0
HandleOf(s) ==
    LET k == IF s = VERTEX THEN 1 ELSE 2
    IN  IF Cardinality(Created) < k THEN 0
        ELSE LET i == CHOOSE i \in Created : Cardinality({j \in Created : j <= i}) = k
             IN  trace[i].args[1]

Deletions(h) == Calls(trace, "glDeleteShader", <<h>>)
Attempted(s) == unit[s] \in {"Compiled", "Failed"}
Returned == m_Shader # 0

\* C3: when the shader file cannot be opened, setup is aborted: init makes no
\* GL call, so CreateShader is not entered.
C3_UnreadableFileAborts ==
    ~file.readable => trace = <<>>

\* C4: when the vertex stage fails to compile, CompileShader asks for the log
\* length, then the log, prints the diagnostic, deletes the unit and returns 0,
\* and the fragment stage is still created and compiled; no run stops before
\* both stages were compiled.
C4_VertexFailure ==
    /\ [](LET h == HandleOf(VERTEX)
          IN  (unit[VERTEX] = "Failed" /\ stage = FRAGMENT) =>
                /\ vs = 0
                /\ Idx("glCompileShader", h) > 0
                /\ Idx("glCompileShader", h) < Idx("glGetShaderiv", h)
                /\ trace[Idx("glGetShaderiv", h) + 1] =
                      GLCall("glGetShaderiv", <<h, "GL_INFO_LOG_LENGTH">>, TRUE, "GL_NO_ERROR")
                /\ trace[Idx("glGetShaderiv", h) + 2].fn = "glGetShaderInfoLog"
                /\ trace[Idx("glGetShaderiv", h) + 2].args[1] = h
                /\ trace[Idx("glGetShaderiv", h) + 3].fn = "glDeleteShader"
                /\ trace[Idx("glGetShaderiv", h) + 3].args = <<h>>
                /\ Len(cout) >= 2
                /\ cout[1] = <<"Failed to compile", "vertex", "shader!">>
                /\ cout[2][1] = "message" /\ cout[2][2] = h /\ cout[2][3] >= 1)
    /\ [](pc \in {"halted", "CreateShader_attach_vs"} => \A s \in {VERTEX, FRAGMENT} : Attempted(s))
    /\ (unit[VERTEX] = "Failed") ~> Attempted(FRAGMENT)

\* the vertex stage failed and the fragment stage compiled
C4_Witness ==
    /\ unit[VERTEX] = "Failed"
    /\ unit[FRAGMENT] = "Compiled"
    /\ vs = 0
    /\ fs # 0

\* C5: when a unit fails to compile the run is not aborted, every GL call is made
\* inside CALL, and CreateShader returns after attach, attach, link, validate,
\* delete, delete.
C5_NoAbortOnCompileFailure ==
    (\E s \in {VERTEX, FRAGMENT} : unit[s] = "Failed") =>
        /\ pc # "halted"
        /\ \A i \in DOMAIN trace : trace[i].wrapped
        /\ Returned =>
              LET n == Len(trace)
              IN  /\ trace[n - 5].fn = "glAttachShader" /\ trace[n - 5].args = <<program, vs>>
                  /\ trace[n - 4].fn = "glAttachShader" /\ trace[n - 4].args = <<program, fs>>
                  /\ trace[n - 3].fn = "glLinkProgram"
                  /\ trace[n - 2].fn = "glValidateProgram"
                  /\ trace[n - 1].fn = "glDeleteShader" /\ trace[n - 1].args = <<vs>>
                  /\ trace[n].fn = "glDeleteShader" /\ trace[n].args = <<fs>>

\* C10: on every combination of compile results, once CreateShader is over (it
\* has returned, or the run was halted) every created shader handle has been
\* deleted exactly once; no handle is deleted twice; a compiled unit is deleted
\* only after attach, link and validate; a failed unit is deleted right after its
\* log was fetched and is never attached.
C10_UnitLifecycle ==
    /\ \A i \in Created : Cardinality(Deletions(trace[i].args[1])) <= 1
    /\ (pc \in {"init_UseProgram", "halted"}) =>
          \A i \in Created : Cardinality(Deletions(trace[i].args[1])) = 1
    /\ \A s \in {VERTEX, FRAGMENT} :
          LET h == HandleOf(s)
          IN  /\ (unit[s] = "Compiled" /\ Deletions(h) # {}) =>
                    /\ 0 < Idx("glAttachShader", program)
                    /\ Calls(trace, "glAttachShader", <<program, h>>) # {}
                    /\ \A a \in Calls(trace, "glAttachShader", <<program, h>>) :
                          a < Idx("glLinkProgram", program)
                    /\ 0 < Idx("glLinkProgram", program)
                    /\ Idx("glLinkProgram", program) < Idx("glValidateProgram", program)
                    /\ Idx("glValidateProgram", program) < Idx("glDeleteShader", h)
              /\ (unit[s] = "Failed") =>
                    /\ Calls(trace, "glAttachShader", <<program, h>>) = {}
                    /\ (stage # s \/ pc \notin {"CompileShader_loglength",
                                               "CompileShader_infolog",
                                               "CompileShader_delete"}) =>
                          /\ Cardinality(Deletions(h)) = 1
                          /\ Idx("glDeleteShader", h) = Idx("glGetShaderiv", h) + 3

Frames == pc = "ready"

\* C7: from r = 0.0 and step +0.05 the scalar reaches 1.0 or more, then the step
\* becomes -0.01 and r decreases; then r reaches 0.0 or less, the step becomes
\* +0.01 and r increases; this goes on forever and the step is never +0.05 again.
C7_Oscillation ==
    /\ [](~Frames => r = 0 /\ m_Increment = 5)
    /\ [][m_Increment # 5 => m_Increment' # 5]_vars
    /\ [][m_Increment' = -1 => r' < r]_vars
    /\ [][m_Increment' = 1 => r' > r]_vars
    /\ (Frames /\ m_Increment # -1) ~> (r >= 100)
    /\ (Frames /\ r >= 100) ~> (m_Increment = -1)
    /\ (Frames /\ m_Increment = -1) ~> (r <= 0)
    /\ (Frames /\ r <= 0) ~> (m_Increment = 1)

\* the step is +0.01 on the way up, after both flips
C7_Witness ==
    /\ Frames
    /\ m_Increment = 1
    /\ r = 50

\* C8 as stated: every value written to the colour uniform is within 0.0 .. 1.0
C8_WithinUnit ==
    u_Color.r >= 0 /\ u_Color.r <= 100

\* C8: every value written to the colour uniform is within -0.01 .. 1.05
C8_WithinOvershoot ==
    u_Color.r >= -1 /\ u_Color.r <= 105

\* the largest value written
C8_Witness ==
    /\ Frames
    /\ u_Color.r = 105
    /\ m_Increment = -1

====
